---------------------------- MODULE Spec2Model ----------------------------
(***************************************************************************)
(* A model of pandas_schema/core.py: the validation contract               *)
(* (BaseValidation), index-anchored rules (IndexValidation), leaf rules    *)
(* (SeriesValidation) and the binary combinator (CombinedValidation).      *)
(*                                                                         *)
(* Rule objects live in a heap (the sequence `rules`, indexed by object    *)
(* identity).  Every method is an operator in state-passing style: it      *)
(* takes the heap and returns [ret |-> outcome, heap |-> heap after the    *)
(* call], where an outcome is either a returned value or a raised          *)
(* exception.  An action applies one call and records it in `last`.        *)
(***************************************************************************)
EXTENDS Integers, Sequences, FiniteSets, TLC

VARIABLES
    rules,   \* the heap: rules[id] is the state of the rule object id
    table,   \* the table the caller holds
    last,    \* the last call since the table was read, and its outcome
    memo,    \* history: an earlier validate call, its table and result, and
             \* whether another table was read since
    ctor,    \* history: the negated flag each leaf was constructed with
    nneg     \* history: how many times ~ was applied to each object

vars == <<rules, table, last, memo, ctor, nneg>>

---------------------------------------------------------------------------
(* Bounds of the model *)

MaxRows == 2    \* tables have at most this many rows
MaxNeg == 2     \* ~ is applied to one object at most this many times

---------------------------------------------------------------------------
(* Python values *)

None == <<>>
Some(x) == <<x>>

\* Python truthiness of an Optional[str]: None and "" are falsy
Truthy(opt) == opt # None /\ opt[1] # ""

Return(v) == [kind |-> "return", val |-> v, exc |-> ""]
Raise(e) == [kind |-> "raise", val |-> None, exc |-> e]

\* The value of a call that returns Python's None
NoneVal == [none |-> TRUE]
IsNone(v) == "none" \in DOMAIN v

---------------------------------------------------------------------------
(* Tables: an index of row identifiers and equally long named columns *)

Columns == {"age", "qty"}
Values == {-1, 30}

RangeIndex(n) == [p \in 1..n |-> p - 1]

Tables ==
    UNION {{[index |-> RangeIndex(n), data |-> d] :
                d \in [Columns -> [1..n -> Values]]} : n \in 0..MaxRows}

\* A series: row identifiers and the value at each, in row order
SeriesOf(df, col) == [index |-> df.index, values |-> df.data[col]]

\* Series.iteritems(): the (row identifier, value) pairs in order
Iteritems(series) ==
    [k \in 1..Len(series.index) |-> <<series.index[k], series.values[k]>>]

\* ~series on a boolean series: elementwise not
InvertSeries(series) ==
    [index |-> series.index,
     values |-> [k \in 1..Len(series.values) |-> ~series.values[k]]]

---------------------------------------------------------------------------
(* Indexers (pandas_schema/index.py) *)

\* RowIndexer(index=slice(None), typ=IndexType.POSITION): every row
AllRows == [typ |-> "POSITION", index |-> "slice(None)"]
ColLabel(c) == Some([typ |-> "LABEL", index |-> c])
AllColumns == Some([typ |-> "POSITION", index |-> "slice(None)"])

\* AxisIndexer.for_message of a column selector: a label for a single named
\* column, None for a selector that names no single column
ForMessage(col_index) ==
    IF col_index[1].typ = "LABEL"
    THEN Some("Column \"" \o col_index[1].index \o "\"")
    ELSE None

\* Whether a row selector (every row, or a boolean series aligned by row
\* identifier) selects the row with identifier `row`
SelectsRow(row_index, row) ==
    IF "typ" \in DOMAIN row_index
    THEN row_index.index = "slice(None)"
    ELSE \E k \in 1..Len(row_index.index) :
            row_index.index[k] = row /\ row_index.values[k]

\* DualAxisIndexer.__call__: the indexer's column restricted to the selected
\* rows, in the table's row order
ApplyIndexer(indexer, df) ==
    LET col == SeriesOf(df, indexer.col_index[1].index)
        pos == SelectSeq([p \in 1..Len(col.index) |-> p],
                         LAMBDA p : SelectsRow(indexer.row_index, col.index[p]))
    IN  [index |-> [k \in 1..Len(pos) |-> col.index[pos[k]]],
         values |-> [k \in 1..Len(pos) |-> col.values[pos[k]]]]

---------------------------------------------------------------------------
(* The class hierarchy and abc's instantiation rule *)

LeafClasses == {"InRangeValidation", "InListValidation"}

BaseOf(cls) ==
    CASE cls = "IndexValidation" -> "BaseValidation"
      [] cls = "SeriesValidation" -> "IndexValidation"
      [] cls = "CombinedValidation" -> "BaseValidation"
      [] cls \in LeafClasses -> "SeriesValidation"

\* The methods each class body defines
Defines(cls) ==
    CASE cls = "BaseValidation" ->
            {"__init__", "validate", "get_failed_index", "message",
             "readable_name", "default_message", "prefix", "__or__"}
      [] cls = "IndexValidation" -> {"__init__", "apply_index", "prefix"}
      [] cls = "SeriesValidation" ->
            {"__init__", "get_failed_index", "validate_series", "__invert__"}
      [] cls = "CombinedValidation" ->
            {"message", "__init__", "get_warning_series", "default_message"}
      [] cls \in LeafClasses -> {"validate_series"}

\* The methods each class body marks @abc.abstractmethod
AbstractDecl(cls) ==
    CASE cls = "BaseValidation" -> {"get_failed_index", "prefix"}
      [] cls = "SeriesValidation" -> {"validate_series"}
      [] OTHER -> {}

\* abc: a class's abstract methods are those it marks abstract and those it
\* inherits abstract and does not define
RECURSIVE AbstractMethods(_)
AbstractMethods(cls) ==
    LET inherited == IF cls = "BaseValidation"
                     THEN {}
                     ELSE AbstractMethods(BaseOf(cls))
    IN  (inherited \ Defines(cls)) \cup AbstractDecl(cls)

RECURSIVE IsSubclass(_, _)
IsSubclass(cls, base) ==
    \/ cls = base
    \/ cls # "BaseValidation" /\ IsSubclass(BaseOf(cls), base)

---------------------------------------------------------------------------
(* Construction *)

\* SeriesValidation.__init__ (through IndexValidation and BaseValidation)
NewSeriesValidation(cls, index, message, negated) ==
    [cls |-> cls,
     custom_message |-> message,
     index |-> [col_index |-> index, row_index |-> AllRows],
     negated |-> negated]

\* Python values handed to an operator: a reference to a rule object of the
\* heap, or something that is no validation at all
Ref(r) == [ref |-> r]
NonValidations == {[str |-> "age"], [int |-> 30]}

\* isinstance(x, BaseValidation)
IsInstance(h, x) ==
    /\ "ref" \in DOMAIN x
    /\ x.ref \in 1..Len(h)
    /\ IsSubclass(h[x.ref].cls, "BaseValidation")

IsLeaf(h, r) == r \in 1..Len(h) /\ IsSubclass(h[r].cls, "SeriesValidation")

\* The abstract methods CombinedValidation is left with: it defines neither
\* get_failed_index nor prefix
CombinedValidationAbstractMethods == AbstractMethods("CombinedValidation")

\* CombinedValidation(validation_a, validation_b, operator): abc refuses to
\* instantiate a class that still has abstract methods; otherwise __init__
\* stores the operator and the two children (by reference)
NewCombinedValidation(h, validation_a, validation_b, operator) ==
    IF CombinedValidationAbstractMethods # {}
    THEN [ret |-> Raise("TypeError"), heap |-> h]
    ELSE [ret |-> Return(Len(h) + 1),
          heap |-> Append(h, [cls |-> "CombinedValidation",
                              custom_message |-> None,
                              operator |-> operator,
                              left |-> validation_a,
                              right |-> validation_b])]

---------------------------------------------------------------------------
(* Leaf rules: SeriesValidation *)

\* The per-value predicate of each concrete leaf class: TRUE marks a value
\* that passes
Passes(cls, v) ==
    CASE cls = "InRangeValidation" -> 0 <= v /\ v <= 120
      [] cls = "InListValidation" -> v \in {-1}

\* validate_series: the boolean series of the values that pass
ValidateSeries(cls, series) ==
    [index |-> series.index,
     values |-> [k \in 1..Len(series.values) |-> Passes(cls, series.values[k])]]

\* IndexValidation.apply_index
ApplyIndex(self, df) == ApplyIndexer(self.index, df)

\* A get_failed_index that forgets the negated flag
GetFailedIndexIgnoresNegated(h, r, df) ==
    LET selected == ValidateSeries(h[r].cls, ApplyIndex(h[r], df))
    IN  [ret |-> Return([row_index |-> InvertSeries(selected),
                         col_index |-> h[r].index.col_index]),
         heap |-> h]

\* A get_failed_index that consumes the negation: it clears the flag it read
GetFailedIndexClearsNegated(h, r, df) ==
    LET selected == ValidateSeries(h[r].cls, ApplyIndex(h[r], df))
        row_index == IF h[r].negated THEN selected ELSE InvertSeries(selected)
    IN  [ret |-> Return([row_index |-> row_index,
                         col_index |-> h[r].index.col_index]),
         heap |-> [h EXCEPT ![r].negated = FALSE]]

\* get_failed_index.  SeriesValidation: the rows that fail, over the rule's
\* own column.  Any other class inherits BaseValidation's abstract method,
\* whose body is its docstring: it returns None.
GetFailedIndex(h, r, df) ==
    IF IsSubclass(h[r].cls, "SeriesValidation")
    THEN LET series == ApplyIndex(h[r], df)
             selected == ValidateSeries(h[r].cls, series)
             row_index == IF h[r].negated
                          THEN selected
                          ELSE InvertSeries(selected)
         IN  [ret |-> Return([row_index |-> row_index,
                              col_index |-> h[r].index.col_index]),
              heap |-> h]
    ELSE [ret |-> Return(NoneVal), heap |-> h]

\* ValidationWarning(validation, props)
ValidationWarning(r, row, value) ==
    [validation |-> r, props |-> [row |-> row, value |-> value]]

\* A validate that reports the position in the failed selection as the row
ValidateRowIsPosition(h, r, df) ==
    LET items == Iteritems(ApplyIndexer(GetFailedIndex(h, r, df).ret.val, df))
    IN  [ret |-> Return([k \in 1..Len(items) |->
                    ValidationWarning(r, k - 1, items[k][2])]),
         heap |-> h]

\* BaseValidation.validate: one warning per item of the failed selection
Validate(h, r, df) ==
    LET f == GetFailedIndex(h, r, df)
    IN  IF f.ret.kind = "raise"
        THEN f
        ELSE IF IsNone(f.ret.val)
        THEN [ret |-> Raise("TypeError"), heap |-> f.heap]
        ELSE LET items == Iteritems(ApplyIndexer(f.ret.val, df))
             IN  [ret |-> Return([k \in 1..Len(items) |->
                            ValidationWarning(r, items[k][1], items[k][2])]),
                  heap |-> f.heap]

\* An __invert__ that sets the flag instead of flipping it
InvertSetsNegated(h, r) ==
    [ret |-> Return(r), heap |-> [h EXCEPT ![r].negated = TRUE]]

\* SeriesValidation.__invert__: flips the flag in place, returns self
Invert(h, r) ==
    [ret |-> Return(r), heap |-> [h EXCEPT ![r].negated = ~h[r].negated]]

---------------------------------------------------------------------------
(* Composition *)

\* BaseValidation.__or__
Or(h, r, other) ==
    IF ~IsInstance(h, other)
    THEN [ret |-> Raise("PanSchArgumentError"), heap |-> h]
    ELSE NewCombinedValidation(h, r, other.ref, "or")

\* CombinedValidation.get_warning_series: both children are validated, then
\* the two results, which validate returns as lists, are asked for a
\* .combine method that lists do not have
GetWarningSeries(h, r, df) ==
    LET left_errors == Validate(h, h[r].left, df)
    IN  IF left_errors.ret.kind = "raise"
        THEN left_errors
        ELSE LET right_errors == Validate(left_errors.heap, h[r].right, df)
             IN  IF right_errors.ret.kind = "raise"
                 THEN right_errors
                 ELSE IF h[r].operator \in {"and", "or"}
                 THEN [ret |-> Raise("AttributeError"),
                       heap |-> right_errors.heap]
                 ELSE [ret |-> Raise("Exception"), heap |-> right_errors.heap]

\* Rule expressions a caller writes: a rule object, or
\* CombinedValidation(left, right, operator) of two expressions
RuleExpr(r) == [t |-> "rule", id |-> r]
CombExpr(l, r, op) == [t |-> "comb", left |-> l, right |-> r, operator |-> op]

\* Evaluating a rule expression: the arguments first, then the constructor
RECURSIVE Build(_, _)
Build(h, e) ==
    IF e.t = "rule"
    THEN [ret |-> Return(e.id), heap |-> h]
    ELSE LET l == Build(h, e.left)
         IN  IF l.ret.kind = "raise"
             THEN l
             ELSE LET rr == Build(l.heap, e.right)
                  IN  IF rr.ret.kind = "raise"
                      THEN rr
                      ELSE NewCombinedValidation(rr.heap, l.ret.val,
                                                 rr.ret.val, e.operator)

\* expr.validate(df) or expr.get_warning_series(df)
BuildAndRun(h, e, method, df) ==
    LET b == Build(h, e)
    IN  IF b.ret.kind = "raise"
        THEN b
        ELSE IF method = "validate"
        THEN Validate(b.heap, b.ret.val, df)
        ELSE GetWarningSeries(b.heap, b.ret.val, df)

---------------------------------------------------------------------------
(* Messages *)

\* ' '.join(parts)
RECURSIVE Join(_)
Join(parts) ==
    IF Len(parts) = 0 THEN ""
    ELSE IF Len(parts) = 1 THEN parts[1]
    ELSE parts[1] \o " " \o Join(Tail(parts))

\* IndexValidation.prefix
Prefix(self, warning) ==
    LET col == IF self.index.col_index # None
               THEN LET col_str == ForMessage(self.index.col_index)
                    IN  IF Truthy(col_str) THEN <<col_str[1]>> ELSE <<>>
               ELSE <<>>
    IN  Join(col \o <<"Row " \o ToString(warning.props.row),
                      "\"" \o ToString(warning.props.value) \o "\"">>)

\* BaseValidation.readable_name
ReadableName(self) == self.cls

\* BaseValidation.default_message
DefaultMessage(self, warning) == "failed the " \o ReadableName(self)

\* A message that uses the custom message whenever it is not None
MessageCustomUnlessNone(self, warning) ==
    Prefix(self, warning) \o " " \o
        (IF self.custom_message # None
         THEN self.custom_message[1]
         ELSE DefaultMessage(self, warning))

\* BaseValidation.message
Message(self, warning) ==
    LET prefix == Prefix(self, warning)
        suffix == IF Truthy(self.custom_message)
                  THEN self.custom_message[1]
                  ELSE DefaultMessage(self, warning)
    IN  prefix \o " " \o suffix

---------------------------------------------------------------------------
(* The state machine: one action per call a caller can make *)

NoCall == [op |-> "none", self |-> 0, arg |-> None, ret |-> Return(NoneVal)]
NoMemo == [self |-> 0]

Call(op, self, arg, ret) == [op |-> op, self |-> self, arg |-> arg, ret |-> ret]

\* History of objects a call created: constructed now, never negated
Grown(hist, h, fill) ==
    [r \in 1..Len(h) |-> IF r <= Len(hist) THEN hist[r] ELSE fill]

Methods == {"validate", "get_warning_series"}
Operators == {"and", "or"}

\* CombinedValidation(a, b, op)
PairExprs(h) ==
    {CombExpr(RuleExpr(a), RuleExpr(b), op) :
        a \in 1..Len(h), b \in 1..Len(h), op \in Operators}

\* (a op b) op c
LeftNested(a, b, c, op) ==
    CombExpr(CombExpr(RuleExpr(a), RuleExpr(b), op), RuleExpr(c), op)

\* a op (b op c)
RightNested(a, b, c, op) ==
    CombExpr(RuleExpr(a), CombExpr(RuleExpr(b), RuleExpr(c), op), op)

\* The operands and operator of a nested combination of two distinct rules
Triples(h) ==
    {t \in (1..Len(h)) \X (1..Len(h)) \X (1..Len(h)) \X Operators : t[1] # t[2]}

NestedExprs(h) ==
    {LeftNested(t[1], t[2], t[3], t[4]) : t \in Triples(h)}
        \cup {RightNested(t[1], t[2], t[3], t[4]) : t \in Triples(h)}

\* The warnings a caller can hand to message
Warnings(r) ==
    {ValidationWarning(r, row, value) : row \in 0..(MaxRows - 1), value \in Values}

\* Tables whose columns all hold the same values
UniformTables == {df \in Tables : \A c, d \in Columns : df.data[c] = df.data[d]}

\* The caller reads another table
ReadTable(df) ==
    /\ df # table
    /\ table' = df
    /\ last' = NoCall
    /\ memo' = IF memo.self # 0 THEN [memo EXCEPT !.read = TRUE] ELSE memo
    /\ UNCHANGED <<rules, ctor, nneg>>

\* ~rule
InvertCall(r) ==
    /\ IsLeaf(rules, r)
    /\ nneg[r] < MaxNeg
    /\ LET c == Invert(rules, r)
       IN  /\ rules' = c.heap
           /\ last' = Call("invert", r, None, c.ret)
    /\ nneg' = [nneg EXCEPT ![r] = nneg[r] + 1]
    /\ UNCHANGED <<table, memo, ctor>>

\* rule.get_failed_index(table)
GetFailedIndexCall(r) ==
    /\ r \in 1..Len(rules)
    /\ LET c == GetFailedIndex(rules, r, table)
       IN  /\ rules' = c.heap
           /\ last' = Call("get_failed_index", r, None, c.ret)
    /\ UNCHANGED <<table, memo, ctor, nneg>>

\* rule.validate(table); `remember` keeps the call in the history
ValidateCall(r, remember) ==
    /\ r \in 1..Len(rules)
    /\ LET c == Validate(rules, r, table)
       IN  /\ rules' = c.heap
           /\ last' = Call("validate", r, None, c.ret)
           /\ memo' = IF remember
                      THEN [self |-> r, df |-> table, ret |-> c.ret,
                            negated |-> rules[r].negated, nneg |-> nneg[r],
                            read |-> FALSE]
                      ELSE memo
    /\ UNCHANGED <<table, ctor, nneg>>

\* rule | other
OrCall(r, other) ==
    /\ r \in 1..Len(rules)
    /\ LET c == Or(rules, r, other)
       IN  /\ rules' = c.heap
           /\ last' = Call("or", r, other, c.ret)
           /\ ctor' = Grown(ctor, c.heap, FALSE)
           /\ nneg' = Grown(nneg, c.heap, 0)
    /\ UNCHANGED <<table, memo>>

\* expr.validate(table) or expr.get_warning_series(table), expr a combination
CombinedCall(e, method) ==
    /\ LET c == BuildAndRun(rules, e, method, table)
       IN  /\ rules' = c.heap
           /\ last' = Call(method, 0, e, c.ret)
           /\ ctor' = Grown(ctor, c.heap, FALSE)
           /\ nneg' = Grown(nneg, c.heap, 0)
    /\ UNCHANGED <<table, memo>>

\* rule.message(warning)
MessageCall(r, w) ==
    /\ r \in 1..Len(rules)
    /\ IsSubclass(rules[r].cls, "IndexValidation")
    /\ last' = Call("message", r, w, Return(Message(rules[r], w)))
    /\ UNCHANGED <<rules, table, memo, ctor, nneg>>

\* Two leaf rules on two columns, each constructed negated or not
InitRules ==
    /\ \E n1 \in BOOLEAN, n2 \in BOOLEAN :
        /\ rules = <<NewSeriesValidation("InRangeValidation", ColLabel("age"),
                                         None, n1),
                     NewSeriesValidation("InListValidation", ColLabel("qty"),
                                         None, n2)>>
        /\ ctor = <<n1, n2>>
    /\ nneg = <<0, 0>>
    /\ last = NoCall
    /\ memo = NoMemo

(* Leaf rules: negation, get_failed_index and validate on any table *)

Init == InitRules /\ table \in Tables

Next ==
    \/ \E df \in Tables : ReadTable(df)
    \/ \E r \in 1..Len(rules) : InvertCall(r)
    \/ \E r \in 1..Len(rules) : GetFailedIndexCall(r)
    \/ \E r \in 1..Len(rules) : ValidateCall(r, FALSE)

Spec == Init /\ [][Next]_vars

(* Combinations of the two leaf rules.  The two rules read one column each, *)
(* so tables whose columns agree give every pair of failing row sets the    *)
(* negations allow.                                                         *)

InitComb == InitRules /\ table \in UniformTables

NextComb ==
    \/ \E df \in UniformTables : ReadTable(df)
    \/ \E r \in 1..Len(rules) : InvertCall(r)
    \/ \E r \in 1..Len(rules) :
        \E other \in {Ref(x) : x \in 1..Len(rules)} \cup NonValidations :
            OrCall(r, other)
    \/ \E e \in PairExprs(rules), m \in Methods : CombinedCall(e, m)
    \/ \E e \in NestedExprs(rules) : CombinedCall(e, "validate")

SpecComb == InitComb /\ [][NextComb]_vars

(* One leaf rule validating a sequence of tables, with the history of an *)
(* earlier validation.  A leaf reads its own column only, so tables whose *)
(* columns agree stand for all tables.                                    *)

InitPure ==
    /\ \E cls \in LeafClasses, c \in Columns, n \in BOOLEAN :
        /\ rules = <<NewSeriesValidation(cls, ColLabel(c), None, n)>>
        /\ ctor = <<n>>
    /\ nneg = <<0>>
    /\ last = NoCall
    /\ memo = NoMemo
    /\ table \in UniformTables

NextPure ==
    \/ \E df \in UniformTables : ReadTable(df)
    \/ \E r \in 1..Len(rules) : InvertCall(r)
    \/ \E r \in 1..Len(rules) : GetFailedIndexCall(r)
    \/ \E r \in 1..Len(rules), remember \in BOOLEAN : ValidateCall(r, remember)

SpecPure == InitPure /\ [][NextPure]_vars

(* One index-anchored rule, with any column selector and custom message, *)
(* asked for the message of any warning                                  *)

ColumnSelectors == {ColLabel(c) : c \in Columns} \cup {AllColumns, None}
CustomMessages == {None, Some(""), Some("is not valid")}

InitMsg ==
    /\ \E cls \in LeafClasses, ci \in ColumnSelectors, m \in CustomMessages :
        rules = <<NewSeriesValidation(cls, ci, m, FALSE)>>
    /\ ctor = <<FALSE>>
    /\ nneg = <<0>>
    /\ last = NoCall
    /\ memo = NoMemo
    /\ table = [index |-> <<>>, data |-> [c \in Columns |-> <<>>]]

NextMsg == \E r \in 1..Len(rules) : \E w \in Warnings(r) : MessageCall(r, w)

SpecMsg == InitMsg /\ [][NextMsg]_vars

---------------------------------------------------------------------------
(* Properties *)

\* The positions of the table's rows
Positions == 1..Len(table.index)

\* How many warnings of a warning sequence are for the row `row`
Count(warnings, row) ==
    Cardinality({k \in 1..Len(warnings) : warnings[k].props.row = row})

\* The rows that have at least one warning
Flagged(warnings) == {warnings[k].props.row : k \in 1..Len(warnings)}

\* What rule.validate(table) returns for a leaf rule now
LeafWarnings(r) == Validate(rules, r, table).ret.val

IsPairExpr(e) == e.t = "comb" /\ e.left.t = "rule" /\ e.right.t = "rule"
IsLeftNested(e) == e.t = "comb" /\ e.left.t = "comb" /\ e.right.t = "rule"

\* The last call validated a combination of two rules with operator op
ValidatedPair(op) ==
    /\ last.op = "validate"
    /\ last.self = 0
    /\ IsPairExpr(last.arg)
    /\ last.arg.operator = op

\* C1: get_failed_index of a leaf rule returns an indexer over the rule's own
\* column that selects exactly the rows where validate_series is false when
\* the rule is not negated, and exactly the rows where it is true when it is.
C1_FailedIndexIsMaskOrComplement ==
    last.op = "get_failed_index" =>
        LET self == rules[last.self]
            passes == ValidateSeries(self.cls,
                        SeriesOf(table, self.index.col_index[1].index))
        IN  /\ last.ret.kind = "return"
            /\ last.ret.val.col_index = self.index.col_index
            /\ last.ret.val.row_index.index = table.index
            /\ \A p \in Positions :
                SelectsRow(last.ret.val.row_index, table.index[p])
                    <=> (passes.values[p] = self.negated)

\* A negated leaf whose failed index selects one row and leaves another out
C1_Witness ==
    /\ last.op = "get_failed_index"
    /\ rules[last.self].negated
    /\ \E p, q \in Positions :
        /\ SelectsRow(last.ret.val.row_index, table.index[p])
        /\ ~SelectsRow(last.ret.val.row_index, table.index[q])

\* C2: validating the 'and' combination of rules A and B produces, for every
\* row R, count(A,R) + count(B,R) warnings.
C2_AndCountsAdd ==
    ValidatedPair("and") =>
        /\ last.ret.kind = "return"
        /\ \A p \in Positions :
            Count(last.ret.val, table.index[p])
                = Count(LeafWarnings(last.arg.left.id), table.index[p])
                    + Count(LeafWarnings(last.arg.right.id), table.index[p])

\* C3: validating the 'or' combination of rules A and B produces no warning
\* for a row that A or B does not flag, and count(A,R) + count(B,R) warnings
\* for every other row R.
C3_OrCountsWhenBothFail ==
    ValidatedPair("or") =>
        /\ last.ret.kind = "return"
        /\ \A p \in Positions :
            LET a == Count(LeafWarnings(last.arg.left.id), table.index[p])
                b == Count(LeafWarnings(last.arg.right.id), table.index[p])
            IN  Count(last.ret.val, table.index[p])
                    = IF a = 0 \/ b = 0 THEN 0 ELSE a + b

\* C4: a | b constructs a CombinedValidation with left a, right b and
\* operator 'or'; a | other raises PanSchArgumentError when other is no
\* validation.
C4_OrConstructsCombination ==
    last.op = "or" =>
        IF IsInstance(rules, last.arg)
        THEN /\ last.ret.kind = "return"
             /\ rules[last.ret.val].cls = "CombinedValidation"
             /\ rules[last.ret.val].left = last.self
             /\ rules[last.ret.val].right = last.arg.ref
             /\ rules[last.ret.val].operator = "or"
        ELSE /\ last.ret.kind = "raise"
             /\ last.ret.exc = "PanSchArgumentError"

\* The half of C4 about an operand that is no validation: a | other raises
\* PanSchArgumentError and the heap holds the two leaves only.
OrRejectsNonValidation ==
    (last.op = "or" /\ ~IsInstance(rules, last.arg)) =>
        /\ last.ret.kind = "raise"
        /\ last.ret.exc = "PanSchArgumentError"
        /\ Len(rules) = Len(ctor)
        /\ \A r \in 1..Len(rules) : IsLeaf(rules, r)

\* C5: after ~ is applied twice to a leaf rule its negated flag is what it
\* was, and validate returns the warnings it returned before, in the same
\* order.
C5_DoubleNegationIsIdentity ==
    (memo.self # 0 /\ nneg[memo.self] = memo.nneg + 2) =>
        /\ rules[memo.self].negated = memo.negated
        /\ (last.op = "validate" /\ last.self = memo.self /\ table = memo.df)
                => last.ret = memo.ret

\* A table validated with warnings, two negations, the same table validated
C5_Witness ==
    /\ memo.self # 0
    /\ nneg[memo.self] = memo.nneg + 2
    /\ last.op = "validate"
    /\ last.self = memo.self
    /\ table = memo.df
    /\ Len(last.ret.val) > 0
    /\ Len(last.ret.val) < Len(table.index)

\* C6: validate of an index-anchored rule returns one warning per cell of the
\* selection get_failed_index names, in the table's row order, each naming
\* the rule itself, the row's identifier and the cell's value; an empty
\* selection gives an empty sequence.
C6_OneWarningPerFailedCell ==
    last.op = "validate" =>
        LET failed == GetFailedIndex(rules, last.self, table).ret.val
            col == table.data[failed.col_index[1].index]
            failing == {p \in Positions :
                            SelectsRow(failed.row_index, table.index[p])}
            w == last.ret.val
        IN  /\ last.ret.kind = "return"
            /\ Len(w) = Cardinality(failing)
            /\ \A k \in 1..Len(w) :
                /\ w[k].validation = last.self
                /\ \E p \in failing :
                    /\ Cardinality({q \in failing : q < p}) = k - 1
                    /\ w[k].props = [row |-> table.index[p], value |-> col[p]]

\* The first row passes and a later row fails: the first warning's row
\* identifier is not its place among the warnings
C6_Witness ==
    /\ last.op = "validate"
    /\ last.ret.kind = "return"
    /\ Len(last.ret.val) >= 1
    /\ Len(last.ret.val) < Len(table.index)
    /\ last.ret.val[1].props.row # 0

\* The validate of a table with no failing row returns no warning
C6_EmptySelectionReached ==
    /\ last.op = "validate"
    /\ Len(table.index) > 0
    /\ last.ret = Return(<<>>)

\* The prefix C7 describes: the column label when there is one, the row and
\* the quoted value, separated by single spaces
ExpectedPrefix(self, warning) ==
    LET column == IF self.index.col_index = None
                  THEN ""
                  ELSE IF ForMessage(self.index.col_index) = None
                  THEN ""
                  ELSE ForMessage(self.index.col_index)[1] \o " "
    IN  column \o "Row " \o ToString(warning.props.row)
            \o " \"" \o ToString(warning.props.value) \o "\""

\* C7 as stated: the message is the prefix, a space, and the custom message
\* whenever one was supplied, otherwise 'failed the {readable_name}'.
C7_CustomMessageWheneverSupplied ==
    last.op = "message" =>
        LET self == rules[last.self]
        IN  last.ret.val = ExpectedPrefix(self, last.arg) \o " " \o
                (IF self.custom_message # None
                 THEN self.custom_message[1]
                 ELSE "failed the " \o self.cls)

\* C7, amended: the message is the prefix, a space, and the custom message
\* when a non-empty one was supplied; when none or the empty string was
\* supplied the suffix is 'failed the {readable_name}'.
C7_CustomMessageWhenNonEmpty ==
    last.op = "message" =>
        LET self == rules[last.self]
        IN  last.ret.val = ExpectedPrefix(self, last.arg) \o " " \o
                (IF self.custom_message \notin {None, Some("")}
                 THEN self.custom_message[1]
                 ELSE "failed the " \o self.cls)

\* A rule given the empty custom message, on a selector that names no single
\* column, asked for a message
C7_Witness ==
    /\ last.op = "message"
    /\ rules[last.self].custom_message = Some("")
    /\ rules[last.self].index.col_index = AllColumns

\* C8: (A op B) op C and A op (B op C) flag the same rows, for op 'and' and
\* for op 'or'.
C8_CompositionAssociative ==
    (last.op = "validate" /\ last.self = 0 /\ IsLeftNested(last.arg)) =>
        LET e == last.arg
            other == BuildAndRun(rules,
                        RightNested(e.left.left.id, e.left.right.id,
                                    e.right.id, e.operator),
                        "validate", table).ret
        IN  /\ last.ret.kind = "return"
            /\ other.kind = "return"
            /\ Flagged(last.ret.val) = Flagged(other.val)

\* The flag of every leaf is its constructor value flipped once per negation
FlagIsConstructorFlippedPerNegation ==
    \A r \in 1..Len(rules) :
        IsLeaf(rules, r) => (rules[r].negated = (ctor[r] = (nneg[r] % 2 = 0)))

\* ~rule returns the rule it was applied to and creates no object
InvertReturnsSelf ==
    last.op = "invert" =>
        /\ last.ret = Return(last.self)
        /\ Len(rules) = Len(ctor)

\* C9: ~rule flips the flag in place and returns the same object, so the flag
\* is the constructor value flipped once per negation, and a combination that
\* holds the leaf as a child evaluates it with the flipped flag: validating
\* an 'and' combination after a negation of its child reports every warning
\* the child reports now.
C9_NegationSharedWithCombination ==
    /\ InvertReturnsSelf
    /\ FlagIsConstructorFlippedPerNegation
    /\ ValidatedPair("and") =>
        \A r \in {last.arg.left.id, last.arg.right.id} :
            nneg[r] > 0 =>
                /\ last.ret.kind = "return"
                /\ \A k \in 1..Len(LeafWarnings(r)) :
                    \E j \in 1..Len(last.ret.val) :
                        last.ret.val[j] = LeafWarnings(r)[k]

\* C10: validate and get_failed_index change no state of any rule object, and
\* with no negation in between, a table validated again gives the warnings it
\* gave before.
C10_ValidationIsPure ==
    /\ [][last'.op \in {"validate", "get_failed_index"} => rules' = rules]_vars
    /\ []((/\ memo.self # 0
           /\ nneg[memo.self] = memo.nneg
           /\ last.op = "validate"
           /\ last.self = memo.self
           /\ table = memo.df) => last.ret = memo.ret)

\* A table validated with warnings, other tables read, no negation, and the
\* first table validated again
C10_Witness ==
    /\ memo.self # 0
    /\ nneg[memo.self] = memo.nneg
    /\ memo.read
    /\ last.op = "validate"
    /\ last.self = memo.self
    /\ table = memo.df
    /\ Len(last.ret.val) > 0

=============================================================================
